---- MODULE Spec2Model ----
(***************************************************************************)
(* The persisted counter of app/counter.py: the counters table of          *)
(* app/models.py, the two repository functions get_or_create_counter and   *)
(* update_counter_value, and the /counter page whose increment and         *)
(* decrement handlers write the displayed value through to the table.      *)
(*                                                                         *)
(* Granularity.  get_or_create_counter is two steps, the SELECT and the    *)
(* INSERT+COMMIT, so that callers on different connections can interleave  *)
(* between them.  update_counter_value and the click handlers are one      *)
(* step each: a handler runs to completion before the next one starts.     *)
(***************************************************************************)
EXTENDS Integers, FiniteSets, Sequences

\* ---------------------------------------------------------------- bounds
NumSessions == 2      \* browser sessions that may open /counter
MaxOps == 3           \* button clicks and direct repository calls, all together
MaxValue == 1         \* the client writes values in -MaxValue..MaxValue

Sessions == 1..NumSessions
Client == 0                         \* a direct caller of the repository functions
Callers == {Client} \cup Sessions
Values == (0 - MaxValue)..MaxValue

\* ------------------------------------------------------- program constants
MainCounter == "main_counter"
Names == {MainCounter, "counter_1"}
NoId == 0                           \* Counter.id before the store assigns one (None)

VARIABLES
    db,        \* the counters table: id -> [name, value]
    pc,        \* per caller: "idle", "inserting" (between SELECT and INSERT), "open", "failed"
    pending,   \* per caller: the name whose INSERT is outstanding, and whether a row
               \* had that name when the call began
    cid,       \* per browser session: counter.id captured by the page's handlers
    display,   \* per browser session: counter_value.value
    last,      \* the repository call that completed last, with the table as it was before it
    incs,      \* history: increment clicks per session
    decs,      \* history: decrement clicks per session
    created,   \* history: the sessions whose page load inserted main_counter
    skipped,   \* history: the sessions one of whose clicks did not persist
    fresh,     \* history: the sessions that loaded or wrote after every other writer
    firstId,   \* history: name -> identity returned by the first completed get_or_create
    written,   \* history: id -> <<value of the last completed update>>, <<>> if none
    calls      \* history: direct repository calls made by the client

vars == <<db, pc, pending, cid, display, last, incs, decs, created, skipped,
          fresh, firstId, written, calls>>

\* ------------------------------------------------------------ the table
\* A Counter object as the ORM loads it from the table.
CounterIn(table, id) == [id |-> id, name |-> table[id].name, value |-> table[id].value]

\* select(Counter).where(Counter.name == name)
SelectByName(table, name) == {i \in DOMAIN table : table[i].name = name}

Min(S) == CHOOSE m \in S : \A x \in S : m <= x

\* a lookup that never finds the row
FirstNone(S) == NoId

\* .first(): the first row of the result, None (NoId) when it is empty
First(S) == IF S = {} THEN NoId ELSE Min(S)

\* a key generator that hands out the highest key in use again
NextIdReuse(table) == IF DOMAIN table = {} THEN 1 ELSE Cardinality(DOMAIN table)

\* the primary key the store assigns to a new row (rows are never deleted)
NextId(table) == Cardinality(DOMAIN table) + 1

\* the name column without its uniqueness constraint
UniqueViolationOff(table, name) == FALSE

\* Field(unique=True) on name: the INSERT is rejected when the name is taken
UniqueViolation(table, name) == SelectByName(table, name) # {}

\* session.add(counter); session.commit() of a Counter(name=name, value=0)
InsertCounter(table, name) ==
    [i \in DOMAIN table \cup {NextId(table)} |->
        IF i \in DOMAIN table THEN table[i] ELSE [name |-> name, value |-> 0]]

\* counter.value += new_value
CommitValueAdd(table, id, new_value) ==
    [table EXCEPT ![id] = [@ EXCEPT !.value = @ + new_value]]

\* an UPDATE without its WHERE clause
CommitValueAll(table, id, new_value) ==
    [i \in DOMAIN table |-> [table[i] EXCEPT !.value = new_value]]

\* counter.value = new_value; session.commit()
CommitValue(table, id, new_value) ==
    [table EXCEPT ![id] = [@ EXCEPT !.value = new_value]]

\* an update that inserts the row it does not find
update_counter_value_upsert(table, counter_id, new_value) ==
    IF counter_id \notin DOMAIN table
    THEN [i \in DOMAIN table \cup {counter_id} |->
            IF i \in DOMAIN table THEN table[i]
            ELSE [name |-> "counter_1", value |-> new_value]]
    ELSE CommitValue(table, counter_id, new_value)

\* an update whose session is closed without a commit
update_counter_value_nocommit(table, counter_id, new_value) == table

\* update_counter_value: the table afterwards
update_counter_value_db(table, counter_id, new_value) ==
    IF counter_id \notin DOMAIN table THEN table
    ELSE CommitValue(table, counter_id, new_value)

\* update_counter_value: the Optional[Counter] returned, <<>> for None
update_counter_value_ret(table, counter_id, new_value) ==
    IF counter_id \notin DOMAIN table THEN <<>>
    ELSE <<CounterIn(update_counter_value_db(table, counter_id, new_value), counter_id)>>

NoPending == [name |-> "", existed |-> FALSE]

NoCall == [op |-> "none", by |-> Client, name |-> "", id |-> NoId, value |-> 0,
           existed |-> FALSE, raised |-> FALSE, ret |-> <<>>, before |-> <<>>,
           shown |-> 0, delta |-> 0]

Init ==
    /\ db = <<>>
    /\ pc = [c \in Callers |-> "idle"]
    /\ pending = [c \in Callers |-> NoPending]
    /\ cid = [s \in Sessions |-> NoId]
    /\ display = [s \in Sessions |-> 0]
    /\ last = NoCall
    /\ incs = [s \in Sessions |-> 0]
    /\ decs = [s \in Sessions |-> 0]
    /\ created = {}
    /\ skipped = {}
    /\ fresh = {}
    /\ firstId = [n \in Names |-> NoId]
    /\ written = <<>>
    /\ calls = 0

\* the operations so far that the bound MaxOps counts
Clicks == LET Sum[n \in 0..NumSessions] ==
                  IF n = 0 THEN 0 ELSE incs[n] + decs[n] + Sum[n - 1]
          IN Sum[NumSessions]

Ops == Clicks + calls

\* ------------------------------------------------ get_or_create_counter
\* a page that always starts its display at 0
ReturnedZero(c, table, id) ==
    /\ pc' = [pc EXCEPT ![c] = IF c = Client THEN "idle" ELSE "open"]
    /\ pending' = [pending EXCEPT ![c] = NoPending]
    /\ cid' = IF c = Client THEN cid ELSE [cid EXCEPT ![c] = id]
    /\ display' = IF c = Client THEN display ELSE [display EXCEPT ![c] = 0]
    /\ fresh' = IF c = Client THEN fresh ELSE fresh \cup {c}
    /\ firstId' = [firstId EXCEPT ![table[id].name] = IF @ = NoId THEN id ELSE @]

\* What the caller does with the Counter that get_or_create_counter returned:
\* counter_page keeps counter.id for its handlers and shows counter.value.
Returned(c, table, id) ==
    /\ pc' = [pc EXCEPT ![c] = IF c = Client THEN "idle" ELSE "open"]
    /\ pending' = [pending EXCEPT ![c] = NoPending]
    /\ cid' = IF c = Client THEN cid ELSE [cid EXCEPT ![c] = id]
    /\ display' = IF c = Client THEN display ELSE [display EXCEPT ![c] = table[id].value]
    /\ fresh' = IF c = Client THEN fresh ELSE fresh \cup {c}
    /\ firstId' = [firstId EXCEPT ![table[id].name] = IF @ = NoId THEN id ELSE @]

\* The lookup.  A row with the name: it is returned as it is.  No row: the
\* caller goes on to the INSERT.
Select(c, name) ==
    /\ pc[c] = "idle"
    /\ LET counter == First(SelectByName(db, name)) IN
       IF counter # NoId
       THEN /\ Returned(c, db, counter)
            /\ last' = [NoCall EXCEPT !.op = "get_or_create", !.by = c, !.name = name,
                                      !.existed = SelectByName(db, name) # {}, !.ret = <<CounterIn(db, counter)>>,
                                      !.before = db]
       ELSE /\ pc' = [pc EXCEPT ![c] = "inserting"]
            /\ pending' = [pending EXCEPT ![c] =
                               [name |-> name, existed |-> SelectByName(db, name) # {}]]
            /\ UNCHANGED <<cid, display, fresh, firstId, last>>
    /\ UNCHANGED <<db, incs, decs, created, skipped, written>>

\* session.add, session.commit, session.refresh.  The commit raises when the
\* name was taken since the lookup; nothing catches it.
Insert(c) ==
    /\ pc[c] = "inserting"
    /\ LET name == pending[c].name IN
       IF UniqueViolation(db, name)
       THEN /\ pc' = [pc EXCEPT ![c] = IF c = Client THEN "idle" ELSE "failed"]
            /\ pending' = [pending EXCEPT ![c] = NoPending]
            /\ last' = [NoCall EXCEPT !.op = "get_or_create", !.by = c, !.name = name,
                                      !.existed = pending[c].existed,
                                      !.raised = TRUE, !.before = db]
            /\ UNCHANGED <<db, cid, display, fresh, firstId, created, written>>
       ELSE LET table == InsertCounter(db, name)
                id == NextId(db) IN
            /\ db' = table
            /\ Returned(c, table, id)
            /\ last' = [NoCall EXCEPT !.op = "get_or_create", !.by = c, !.name = name,
                                      !.existed = pending[c].existed,
                                      !.ret = <<CounterIn(table, id)>>, !.before = db]
            /\ created' = IF c = Client THEN created ELSE created \cup {c}
            /\ written' = [i \in DOMAIN table |-> IF i \in DOMAIN db THEN written[i] ELSE <<>>]
    /\ UNCHANGED <<incs, decs, skipped, calls>>

\* counter_page: get_or_create_counter(session, "main_counter").  Sessions are
\* interchangeable, so they are numbered in the order in which they open the page.
PageLoad(s) ==
    /\ \A t \in Sessions : t < s => pc[t] # "idle"
    /\ Select(s, MainCounter)
    /\ UNCHANGED calls

\* a direct call get_or_create_counter(session, name)
GetOrCreate(name) ==
    /\ Ops < MaxOps
    /\ calls' = calls + 1
    /\ Select(Client, name)

\* ------------------------------------------------- update_counter_value
\* The sessions whose display a write to row id by caller c leaves behind.
Fresh(c, id) ==
    IF id \notin DOMAIN db THEN fresh
    ELSE {s \in fresh : cid[s] # id} \cup (IF c = Client THEN {} ELSE {c})

\* a direct call update_counter_value(session, counter_id, new_value)
UpdateValue(counter_id, new_value) ==
    /\ pc[Client] = "idle"
    /\ Ops < MaxOps
    /\ calls' = calls + 1
    /\ db' = update_counter_value_db(db, counter_id, new_value)
    /\ last' = [NoCall EXCEPT !.op = "update_value", !.id = counter_id,
                              !.value = new_value, !.before = db,
                              !.ret = update_counter_value_ret(db, counter_id, new_value)]
    /\ written' = IF counter_id \in DOMAIN db
                  THEN [written EXCEPT ![counter_id] = <<new_value>>] ELSE written
    /\ fresh' = Fresh(Client, counter_id)
    /\ UNCHANGED <<pc, pending, cid, display, incs, decs, created, skipped, firstId>>

\* session.get(Counter, counter_id) in a session of its own
Get(counter_id) ==
    /\ pc[Client] = "idle"
    /\ Ops < MaxOps
    /\ calls' = calls + 1
    /\ last' = [NoCall EXCEPT !.op = "get", !.id = counter_id, !.before = db,
                              !.ret = IF counter_id \in DOMAIN db
                                      THEN <<CounterIn(db, counter_id)>> ELSE <<>>]
    /\ UNCHANGED <<db, pc, pending, cid, display, incs, decs, created, skipped,
                   fresh, firstId, written>>

\* ------------------------------------------------------- the /counter page
\* a decrement that stops at zero
NewValueFloor(s, delta) == IF display[s] + delta < 0 THEN 0 ELSE display[s] + delta

\* a handler that re-reads the stored value before it adds
NewValueReread(s, delta) ==
    IF cid[s] \in DOMAIN db THEN db[cid[s]].value + delta ELSE display[s] + delta

\* new_value = int(counter_value.value) + 1, or - 1: the value shown is an
\* integer, which int() leaves as it is.
NewValue(s, delta) == display[s] + delta

\* increment and decrement: show new_value, then write it through when the
\* page has an identity.
Click(s, delta) ==
    /\ pc[s] = "open"
    /\ Ops < MaxOps
    /\ LET new_value == NewValue(s, delta) IN
       /\ display' = [display EXCEPT ![s] = new_value]
       /\ IF cid[s] # NoId
          THEN /\ db' = update_counter_value_db(db, cid[s], new_value)
               /\ last' = [NoCall EXCEPT !.op = "update_value", !.by = s, !.id = cid[s],
                                         !.value = new_value, !.before = db,
                                         !.shown = display[s], !.delta = delta,
                                         !.ret = update_counter_value_ret(db, cid[s], new_value)]
               /\ written' = IF cid[s] \in DOMAIN db
                             THEN [written EXCEPT ![cid[s]] = <<new_value>>] ELSE written
               /\ fresh' = Fresh(s, cid[s])
               /\ skipped' = IF cid[s] \in DOMAIN db THEN skipped ELSE skipped \cup {s}
          ELSE /\ skipped' = skipped \cup {s}
               /\ UNCHANGED <<db, last, written, fresh>>
    /\ UNCHANGED <<pc, pending, cid, created, firstId, calls>>

Increment(s) ==
    /\ Click(s, 1)
    /\ incs' = [incs EXCEPT ![s] = @ + 1]
    /\ UNCHANGED decs

Decrement(s) ==
    /\ Click(s, 0 - 1)
    /\ decs' = [decs EXCEPT ![s] = @ + 1]
    /\ UNCHANGED incs

Next ==
    \/ \E s \in Sessions : PageLoad(s)
    \/ \E c \in Callers : Insert(c)
    \/ \E name \in Names : GetOrCreate(name)
    \/ \E id \in DOMAIN db \cup {NextId(db)}, v \in Values : UpdateValue(id, v)
    \/ \E id \in DOMAIN db \cup {NextId(db)} : Get(id)
    \/ \E s \in Sessions : Increment(s)
    \/ \E s \in Sessions : Decrement(s)

Spec == Init /\ [][Next]_vars

TypeOK ==
    /\ \A i \in DOMAIN db : db[i].name \in Names /\ db[i].value \in Int
    /\ DOMAIN db = 1..Cardinality(DOMAIN db)
    /\ \A c \in Callers : pc[c] \in {"idle", "inserting", "open", "failed"}
    /\ \A s \in Sessions : cid[s] \in Nat /\ display[s] \in Int

\* ------------------------------------------------------------- the claims
NamesOf(table) == {table[i].name : i \in DOMAIN table}

C2_GetOrCreateIdempotent ==
    (last.op = "get_or_create" /\ last.existed) =>
        /\ ~last.raised
        /\ Len(last.ret) = 1
        /\ last.ret[1].id = firstId[last.name]
        /\ last.ret[1].name = last.name
        /\ db = last.before

\* a later get_or_create returned a counter whose value had been updated
C2_Witness ==
    /\ last.op = "get_or_create"
    /\ last.existed
    /\ Len(last.ret) = 1
    /\ last.ret[1].id = firstId[last.name]
    /\ last.ret[1].value # 0

\* C3: update_value on an identity in the store returns a counter with that
\* identity and the new value, and the stored value is the new value,
\* whatever it was before.
C3_UpdateSetsValue ==
    (last.op = "update_value" /\ last.id \in DOMAIN last.before) =>
        /\ Len(last.ret) = 1
        /\ last.ret[1].id = last.id
        /\ last.ret[1].value = last.value
        /\ db[last.id].value = last.value

\* a positive stored value was overwritten by a negative one
C3_Witness ==
    /\ last.op = "update_value"
    /\ last.id \in DOMAIN last.before
    /\ last.before[last.id].value > 0
    /\ last.value < 0
    /\ db[last.id].value = last.value

\* C4: update_value on an identity that is not in the store returns None
\* without raising and leaves the store as it was.
C4_UpdateAbsentIsNone ==
    (last.op = "update_value" /\ last.id \notin DOMAIN last.before) =>
        /\ last.ret = <<>>
        /\ ~last.raised
        /\ db = last.before

\* an absent identity was updated in a store that holds a counter
C4_Witness ==
    /\ last.op = "update_value"
    /\ last.id \notin DOMAIN last.before
    /\ last.before # <<>>
    /\ last.ret = <<>>

\* C5: a read in a store session of its own, after update_value(id, v) has
\* completed, returns value v and the name the counter was created with.  The
\* reads are session.get and the lookup of a later get_or_create.
C5_ValuePersists ==
    /\ (last.op = "get" /\ last.id \in DOMAIN written /\ written[last.id] # <<>>) =>
          /\ Len(last.ret) = 1
          /\ last.ret[1].value = written[last.id][1]
          /\ \E n \in Names : firstId[n] = last.id /\ last.ret[1].name = n
    /\ (last.op = "get_or_create" /\ last.existed /\ Len(last.ret) = 1) =>
          \A i \in DOMAIN written :
              (i = last.ret[1].id /\ written[i] # <<>>) =>
                  last.ret[1].value = written[i][1]

\* a later session read back a written value other than the initial 0
C5_Witness ==
    /\ last.op = "get"
    /\ last.id \in DOMAIN written
    /\ written[last.id] # <<>>
    /\ Len(last.ret) = 1
    /\ last.ret[1].value # 0

\* C6: update_value changes nothing but the value of the row with the given
\* identity: no row appears or disappears, every name stays, and every other
\* row keeps its value.
C6_UpdateFrame ==
    (last.op = "update_value") =>
        /\ DOMAIN db = DOMAIN last.before
        /\ \A i \in DOMAIN last.before :
              /\ db[i].name = last.before[i].name
              /\ i # last.id => db[i].value = last.before[i].value

\* two differently named counters were each set to a value of their own
C6_Witness ==
    /\ last.op = "update_value"
    /\ \E i, j \in DOMAIN db :
          /\ db[i].name # db[j].name
          /\ written[i] # <<>> /\ written[j] # <<>>
          /\ db[i].value # db[j].value
          /\ last.id = j

\* C7: a session whose page load created main_counter starts at 0 and shows
\* increments minus decrements after any clicks, below zero too.
C7_DisplayIsNetClicks ==
    \A s \in Sessions :
        (pc[s] = "open" /\ s \in created) => display[s] = incs[s] - decs[s]

\* three decrements from 0 show -3
C7_Witness ==
    \E s \in created : incs[s] = 0 /\ decs[s] = 3 /\ display[s] = 0 - 3

Stored(s) == db[cid[s]].value

\* C8 as stated: a session with /counter open shows the stored value unless a
\* persistence step of one of its own clicks was skipped or failed.  Stated
\* for the runs in which browser sessions alone use the store.
C8_DisplayEqualsStore ==
    calls = 0 =>
        \A s \in Sessions :
            (pc[s] = "open" /\ s \notin skipped) => display[s] = Stored(s)

\* C8 amended: ... or unless another writer has updated the counter since this
\* session's page load or last click.
C8_DisplayEqualsStoreIfFresh ==
    \A s \in Sessions :
        (pc[s] = "open" /\ s \notin skipped /\ s \in fresh) => display[s] = Stored(s)

\* two sessions on the same counter: the one that clicked last shows the stored
\* value, the other does not
C8_Witness ==
    \E s, t \in Sessions :
        /\ pc[s] = "open" /\ pc[t] = "open" /\ cid[s] = cid[t]
        /\ s \in fresh /\ t \notin fresh
        /\ incs[s] + decs[s] > 0
        /\ display[s] = Stored(s) /\ display[t] # Stored(t)

\* C9: no two stored counters have the same name.
C9_NamesUnique ==
    \A i, j \in DOMAIN db : db[i].name = db[j].name => i = j

\* two first loads of /counter interleaved between lookup and insert: the
\* second insert was rejected
C9_Witness ==
    /\ last.op = "get_or_create"
    /\ last.raised
    /\ ~last.existed
    /\ \E s \in Sessions : pc[s] = "failed"

NetClicks == LET Sum[n \in 0..NumSessions] ==
                     IF n = 0 THEN 0 ELSE incs[n] - decs[n] + Sum[n - 1]
             IN Sum[NumSessions]

\* C10: a click handler writes its own session's displayed value plus or
\* minus 1, whatever the store held: after a click the stored value is the
\* value that handler wrote.
C10_LastWriteWins ==
    (last.op = "update_value" /\ last.by \in Sessions) =>
        /\ db[last.id].value = last.shown + last.delta
        /\ display[last.by] = last.shown + last.delta

\* clicks of two sessions and no other writer: the stored value is the last
\* handler's, not 0 plus the net clicks of both
C10_Witness ==
    /\ last.op = "update_value" /\ last.by \in Sessions
    /\ calls = 0
    /\ \A s \in Sessions : pc[s] = "open" => incs[s] + decs[s] > 0
    /\ \E s, t \in Sessions : s # t /\ pc[s] = "open" /\ pc[t] = "open"
    /\ db[last.id].value = last.shown + last.delta
    /\ db[last.id].value # NetClicks

====
